---- MODULE Spec2Model ----
(***************************************************************************)
(* TurboTools: the TurboMap class of src/TurboTools/TurboMap.py.           *)
(*                                                                         *)
(* The model follows the Python object model of the class: attributes with *)
(* class-level defaults (cls), per-instance attribute dictionaries (inst)  *)
(* that shadow them, the line-by-line scan of readMapGT with its two       *)
(* readers, the turbine pressure-ratio reconstruction, scaleMap, writeMap  *)
(* and the two drawing methods.                                            *)
(*                                                                         *)
(* Real numbers are fixed-point integers: a real x is stored as x * Unit.  *)
(* The source file is an input: what readline returns is chosen when it is *)
(* called (a header line of the catalogue Lines, end of file, or the       *)
(* numeric tokens of the lines a reader consumes).                         *)
(***************************************************************************)
EXTENDS Integers, Sequences, FiniteSets, TLC

\* ------------------------------------------------------------------ bounds
MaxWidth == 2
MaxHeight == 2
MaxSkew == 1
MaxBad == 1

\* fixed-point resolution of the stored reals (divisible by width-1 for every
\* modelled width, so that np.linspace is exact)
Unit == 2 * 2 * 3 * 5

\* side of the class-level default arrays, np.zeros([10, 10])
DefaultDim == 10

Insts == {1, 2}

\* the first token of a bound section holds base + 1
Bases == {0, 1}

\* argument triples <<Kp, Km, Keta>> passed to scaleMap
ScaleArgs == {<<2, 3, 5>>, <<3, 2, 1>>}

\* ----------------------------------------------------------------- helpers
Min2(a, b) == IF a < b THEN a ELSE b

Range(s) == {s[k] : k \in 1..Len(s)}

\* math.ceil(a / b) for positive integers
CeilDiv(a, b) == (a + b - 1) \div b

\* Python's  sub in line  on strings given as sequences of characters
In(sub, line) ==
  \E k \in 0..(Len(line) - Len(sub)) :
     \A m \in 1..Len(sub) : line[k + m] = sub[m]

sMassFlow == <<"M","a","s","s"," ","F","l","o","w">>
sEfficiency == <<"E","f","f","i","c","i","e","n","c","y">>
sPressureRatio == <<"P","r","e","s","s","u","r","e"," ","R","a","t","i","o">>
sMin == <<"M","i","n"," ">>
sMax == <<"M","a","x"," ">>
sMinPressureRatio == sMin \o sPressureRatio
sMaxPressureRatio == sMax \o sPressureRatio
sM == <<"M">>
sSurgeLine == <<"S","u","r","g","e"," ","L","i","n","e">>
sSpace == <<" ">>

\* the text lines the scan of readMapGT may meet (numeric lines met by the
\* scan contain no header and behave like sSurgeLine)
Lines ==
  { sMassFlow, sEfficiency, sPressureRatio, sMinPressureRatio,
    sMaxPressureRatio, sSurgeLine,
    sEfficiency \o sSpace \o sMinPressureRatio }

\* the readers the if-chain of readMapGT runs for one header line, in order.
\* tline is not reassigned between the tests, so the chain is a function of
\* the line.
DispatchNoGuard(tline) ==
  SelectSeq(<<"MF", "EFF", "PR", "MIN", "MAX">>,
            LAMBDA r :
              \/ r = "MF"  /\ In(sMassFlow, tline)
              \/ r = "EFF" /\ In(sEfficiency, tline)
              \/ r = "PR"  /\ In(sPressureRatio, tline)
              \/ r = "MIN" /\ In(sMinPressureRatio, tline)
              \/ r = "MAX" /\ In(sMaxPressureRatio, tline))

Dispatch(tline) ==
  SelectSeq(<<"MF", "EFF", "PR", "MIN", "MAX">>,
            LAMBDA r :
              \/ r = "MF"  /\ In(sMassFlow, tline)
              \/ r = "EFF" /\ In(sEfficiency, tline)
              \/ r = "PR"  /\ In(sPressureRatio, tline) /\ ~In(sM, tline)
              \/ r = "MIN" /\ In(sMinPressureRatio, tline)
              \/ r = "MAX" /\ In(sMaxPressureRatio, tline))

\* number of readline calls of __readSection and __readTurbineSection
SectionLines(width, height) == CeilDiv(width + 1, 5) * (height + 1)
BoundLines(height) == CeilDiv(height + 1, 5) * 2

\* the slicing of __readSection applied to the token stream of its lines.
\* ok is FALSE where numpy raises (IndexError on the fancy index, ValueError
\* on the reshape).
ReadSection(width, height, stream) ==
  LET T == Len(stream)
      beta == SubSeq(stream, 2, Min2(width + 1, T))
      rest == SubSeq(stream, width + 2, T)
      idx == {k \in 0..(width * height - 1) : k % (width + 1) = 0}
      indexOK == \A k \in idx : k < Len(rest)
      N == [n \in 1..Cardinality(idx) |-> rest[(n - 1) * (width + 1) + 1]]
      keptIdx == SelectSeq([k \in 1..Len(rest) |-> k],
                           LAMBDA k : (k - 1) \notin idx)
      size == Len(keptIdx)
      rows == size \div width
      reshapeOK == rows * width = size
  IN  IF indexOK /\ reshapeOK
        THEN [ok |-> TRUE, beta |-> beta, N |-> N,
              section |-> [r \in 1..rows |->
                             [c \in 1..width |->
                                rest[keptIdx[(r - 1) * width + c]]]]]
        ELSE [ok |-> FALSE, beta |-> <<>>, N |-> <<>>, section |-> <<>>]

\* the slicing of __readTurbineSection: section[height+2:], never raises
ReadTurbineSection(height, stream) == SubSeq(stream, height + 3, Len(stream))

\* np.linspace with endpoint=False: the step is (stop - start) / num
LinspaceNoEndpoint(start, stop, num, j) ==
  start + (j * (stop - start)) \div num

\* np.linspace(start, stop, num)[j], j 0-based
Linspace(start, stop, num, j) ==
  IF num = 1 THEN start
  ELSE IF j = num - 1 THEN stop
  ELSE start + (j * (stop - start)) \div (num - 1)

Zeros(rows, cols) == [r \in 1..rows |-> [c \in 1..cols |-> 0]]

\* the loop of readMapGT lines 154-157 over rows 0..n-1 of a fresh
\* np.zeros([height, width])
Reconstruct(width, height, mPR, MPR, n) ==
  [r \in 1..height |->
     [c \in 1..width |->
        IF r <= n THEN Linspace(mPR[r], MPR[r], width, c - 1) ELSE 0]]

\* the token stream of the lines of a field section laid out for a map of
\* the given width, cut or extended to n tokens: the label tokens (the header
\* row and the leading token of every row) hold their position k, the other
\* tokens hold k + LabelSpan * kind, so that no label equals a field value and
\* the three fields differ
LabelSpan == 4 * 5
SectionStream(n, kind, width) ==
  [k \in 1..n |->
     IF k <= width + 1 \/ (k - 1) % (width + 1) = 0
       THEN k * Unit
       ELSE (k + LabelSpan * kind) * Unit]

\* the token stream of the lines of a bound section, n tokens
BoundStream(n, base) == [k \in 1..n |-> (base + k) * Unit]

\* ------------------------------------------------------------------- state
VARIABLES
  cls,        \* attributes of the class object TurboMap (lines 39-59)
  inst,       \* inst[i]: the attribute dictionary of instance i
  stage,      \* "new", "loading", "ready" (constructor returned), "failed" (it raised)
  fid,        \* fid[i]: the file object readMapGT opened for instance i
  pc,         \* "idle", "scan" (at readline of the while loop), "dispatch" (in the
              \* if-chain, before a reader call), "decode" (in the reader, after its loop)
  cur,        \* the instance whose constructor is running
  tline,      \* the header line the if-chain is testing
  todo,       \* the readers of the if-chain still to run for tline
  mPR, MPR,   \* locals of readMapGT
  section,    \* local of the reader: the tokens of the lines it read
  lastReads,  \* readline calls made by the reader
  nbad,       \* sections with a wrong number of tokens the file held so far
  last        \* the latest method call: its name, receiver, arguments and output

vars == <<cls, inst, stage, fid, pc, cur, tline, todo, mPR, MPR,
          section, lastReads, nbad, last>>

\* attribute lookup: the instance dictionary first, then the class
Attr(i, a) == IF a \in DOMAIN inst[i] THEN inst[i][a] ELSE cls[a]

\* self.a = v for every a in DOMAIN upd
SetAttrs(d, upd) ==
  [a \in DOMAIN d \cup DOMAIN upd |-> IF a \in DOMAIN upd THEN upd[a] ELSE d[a]]

NoCall == [op |-> "none", inst |-> 0, args |-> <<>>, out |-> <<>>]
Call(op, i, args, out) == [op |-> op, inst |-> i, args |-> args, out |-> out]

ClassDefaults ==
  [ isTurbine |-> FALSE, isCompressor |-> FALSE,
    massFlow |-> Zeros(DefaultDim, DefaultDim),
    compression |-> Zeros(DefaultDim, DefaultDim),
    efficiency |-> Zeros(DefaultDim, DefaultDim),
    Kp |-> 1, Km |-> 1, Keta |-> 1,
    beta |-> [r \in 1..DefaultDim |-> <<Unit>>],
    N |-> [r \in 1..DefaultDim |-> <<Unit>>],
    width |-> DefaultDim, height |-> DefaultDim ]

Init ==
  /\ cls = ClassDefaults
  /\ inst = [i \in Insts |-> <<>>]
  /\ stage = [i \in Insts |-> "new"]
  /\ fid = [i \in Insts |-> "none"]
  /\ pc = "idle"
  /\ cur = 0
  /\ tline = <<>>
  /\ todo = <<>>
  /\ mPR = <<>>
  /\ MPR = <<>>
  /\ section = <<>>
  /\ lastReads = 0
  /\ nbad = 0
  /\ last = NoCall

\* ------------------------------------------------------------- constructor
\* TurboMap(fileLoc, width, height, isCompressor); isMap is  ".Map" in fileLoc.
\* With isMap the constructor goes on into readMapGT, up to its first readline.
Construct(i, isMap, width, height, isCompressor) ==
  /\ pc = "idle"
  /\ stage[i] = "new"
  /\ inst' = [inst EXCEPT ![i] =
                SetAttrs(SetAttrs(@, [width |-> width, height |-> height]),
                         IF isCompressor THEN [isCompressor |-> TRUE]
                                         ELSE [isTurbine |-> TRUE])]
  /\ last' = Call("init", i, <<width, height, isCompressor>>, <<>>)
  /\ mPR' = <<>>
  /\ MPR' = <<>>
  /\ section' = <<>>
  /\ lastReads' = 0
  /\ nbad' = 0
  /\ tline' = <<>>
  /\ todo' = <<>>
  /\ IF isMap
       THEN /\ stage' = [stage EXCEPT ![i] = "loading"]
            /\ fid' = [fid EXCEPT ![i] = "open"]
            /\ pc' = "scan"
            /\ cur' = i
       ELSE /\ stage' = [stage EXCEPT ![i] = "ready"]
            /\ UNCHANGED <<fid, pc, cur>>
  /\ UNCHANGED cls

\* ------------------------------------------------------------- readMapGT
\* readline returns a non-empty line: run the tests of the if-chain on it
ScanLine ==
  /\ pc = "scan"
  /\ \E line \in Lines :
       /\ tline' = line
       /\ todo' = Dispatch(line)
       /\ pc' = IF Dispatch(line) = <<>> THEN "scan" ELSE "dispatch"
  /\ UNCHANGED <<cls, inst, stage, fid, cur, mPR, MPR, section, lastReads, nbad, last>>

\* the reader the if-chain calls next, its expected token count and the
\* attribute its result is stored in
IsSection(r) == r \in {"MF", "EFF", "PR"}
Expected(r, width, height) ==
  IF IsSection(r) THEN (width + 1) * (height + 1) ELSE 2 * (height + 1)
Field(r) == CASE r = "MF" -> "massFlow"
              [] r = "EFF" -> "efficiency"
              [] OTHER -> "compression"

\* the token streams tried for one reader call: the lines it consumes hold
\* expected + skew tokens, or none at all (blank lines, or the end of the
\* file right after the header). A Max bound section holds the numbers of
\* the Min bound section or larger ones.
Streams(r, width, height, Skews) ==
  LET expected == Expected(r, width, height)
      sizes == {0} \cup {n \in {expected + s : s \in Skews} : n > 0}
  IN  IF IsSection(r)
        THEN {SectionStream(n, CASE r = "MF" -> 1 [] r = "EFF" -> 2 [] OTHER -> 3,
                            width) : n \in sizes}
        ELSE {BoundStream(n, b) : n \in sizes,
                                  b \in IF r = "MAX" THEN Bases ELSE {0}}

\* the readline loop of the reader called next (lines 379-387, 429-437):
\* totalLines lines are read and their tokens concatenated.
\* bad: one of the tokens is no number, astype raises and the load ends.
\* At most MaxBad sections of a file hold a wrong number of tokens.
ReadLines(Skews) ==
  /\ pc = "dispatch"
  /\ LET r == Head(todo)
         width == Attr(cur, "width")
         height == Attr(cur, "height")
     IN  /\ lastReads' = IF IsSection(r) THEN SectionLines(width, height)
                                         ELSE BoundLines(height)
         /\ \E stream \in Streams(r, width, height, Skews), bad \in BOOLEAN :
              LET wrong == Len(stream) # Expected(r, width, height)
              IN  /\ wrong => (nbad < MaxBad /\ ~bad)
                  /\ nbad' = IF wrong THEN nbad + 1 ELSE nbad
                  /\ IF bad
                       THEN /\ stage' = [stage EXCEPT ![cur] = "failed"]
                            /\ pc' = "idle"
                            /\ section' = <<>>
                            /\ tline' = <<>>
                            /\ todo' = <<>>
                            /\ mPR' = <<>>
                            /\ MPR' = <<>>
                       ELSE /\ pc' = "decode"
                            /\ section' = stream
                            /\ UNCHANGED <<stage, tline, todo, mPR, MPR>>
  /\ UNCHANGED <<cls, inst, fid, cur, last>>

\* the slicing after the loop, the return of the reader and the assignment
\* of its result in readMapGT; an exception of the slicing ends the load
Decode ==
  /\ pc = "decode"
  /\ LET r == Head(todo)
         width == Attr(cur, "width")
         height == Attr(cur, "height")
         sec == ReadSection(width, height, section)
         bnd == ReadTurbineSection(height, section)
     IN  IF IsSection(r) /\ ~sec.ok
           THEN /\ stage' = [stage EXCEPT ![cur] = "failed"]
                /\ pc' = "idle"
                /\ tline' = <<>>
                /\ todo' = <<>>
                /\ mPR' = <<>>
                /\ MPR' = <<>>
                /\ UNCHANGED inst
           ELSE /\ todo' = Tail(todo)
                /\ pc' = IF Tail(todo) = <<>> THEN "scan" ELSE "dispatch"
                /\ tline' = IF Tail(todo) = <<>> THEN <<>> ELSE tline
                /\ inst' = IF IsSection(r)
                             THEN [inst EXCEPT ![cur] =
                                     SetAttrs(SetAttrs(@, [beta |-> sec.beta, N |-> sec.N]),
                                              [a \in {Field(r)} |-> sec.section])]
                             ELSE inst
                /\ mPR' = IF r = "MIN" THEN bnd ELSE mPR
                /\ MPR' = IF r = "MAX" THEN bnd ELSE MPR
                /\ UNCHANGED stage
  /\ section' = <<>>
  /\ lastReads' = 0
  /\ UNCHANGED <<cls, fid, cur, nbad, last>>

\* readline returns "": break, then lines 153-157 and the return of
\* readMapGT and of the constructor. The loop over range(np.size(mPR)) raises
\* IndexError at the first row that MPR or the height x width array lacks.
\* The file object is never closed by the code; when the call returns it is
\* unreferenced and the runtime may or may not have finalised it.
ScanEnd ==
  /\ pc = "scan"
  /\ LET width == Attr(cur, "width")
         height == Attr(cur, "height")
         n == Len(mPR)
         good == Min2(height, Len(MPR))
         raised == n > good
     IN  /\ inst' = IF n # 0
                      THEN [inst EXCEPT ![cur] =
                              SetAttrs(@, [compression |->
                                 Reconstruct(width, height, mPR, MPR, Min2(n, good))])]
                      ELSE inst
         /\ stage' = [stage EXCEPT ![cur] = IF raised THEN "failed" ELSE "ready"]
         /\ \E f \in {"open", "closed"} :
              /\ raised => f = "open"
              /\ fid' = [fid EXCEPT ![cur] = f]
  /\ pc' = "idle"
  /\ UNCHANGED <<cls, cur, tline, todo, mPR, MPR, section, lastReads, nbad, last>>

\* the runtime finalises an unreferenced file object
Collect(i) ==
  /\ stage[i] \in {"ready", "failed"}
  /\ fid[i] = "open"
  /\ fid' = [fid EXCEPT ![i] = "closed"]
  /\ UNCHANGED <<cls, inst, stage, pc, cur, tline, todo, mPR, MPR,
                 section, lastReads, nbad, last>>

\* ------------------------------------------------------- scaleMap
\* scaleMap with the first two assignments crossed
ScaleMapCrossed(i, Kp, Km, Keta) ==
  /\ pc = "idle"
  /\ stage[i] = "ready"
  /\ inst' = [inst EXCEPT ![i] = SetAttrs(@, [Kp |-> Km, Km |-> Kp, Keta |-> Keta])]
  /\ last' = Call("scaleMap", i, <<Kp, Km, Keta>>, <<>>)
  /\ UNCHANGED <<cls, stage, fid, pc, cur, tline, todo, mPR, MPR,
                 section, lastReads, nbad>>

\* scaleMap assigning to the class attributes (TurboMap.Kp = Kp, ...)
ScaleMapOnClass(i, Kp, Km, Keta) ==
  /\ pc = "idle"
  /\ stage[i] = "ready"
  /\ cls' = [cls EXCEPT !.Kp = Kp, !.Km = Km, !.Keta = Keta]
  /\ last' = Call("scaleMap", i, <<Kp, Km, Keta>>, <<>>)
  /\ UNCHANGED <<inst, stage, fid, pc, cur, tline, todo, mPR, MPR,
                 section, lastReads, nbad>>

ScaleMap(i, Kp, Km, Keta) ==
  /\ pc = "idle"
  /\ stage[i] = "ready"
  /\ inst' = [inst EXCEPT ![i] = SetAttrs(@, [Kp |-> Kp, Km |-> Km, Keta |-> Keta])]
  /\ last' = Call("scaleMap", i, <<Kp, Km, Keta>>, <<>>)
  /\ UNCHANGED <<cls, stage, fid, pc, cur, tline, todo, mPR, MPR,
                 section, lastReads, nbad>>

\* ------------------------------------------------------- writeMap
\* np.array2string(precision=5, floatmode="fixed") of one number: the number
\* rounded to 5 decimals, given here as its count of 1e-5 units
Fmt5(v) == (v * 100000 + Unit \div 2) \div Unit
FmtVec(s) == [k \in 1..Len(s) |-> Fmt5(s[k])]
FmtMat(m) == [r \in 1..Len(m) |-> FmtVec(m[r])]

\* an axis is the 1-D array a section gave, or the 10 x 1 class default
FmtAxis(i, a) == IF a \in DOMAIN inst[i] THEN FmtVec(inst[i][a]) ELSE FmtMat(cls[a])

\* the attribute values of axis2, axis3 and return of the written document
WriteMap(i) ==
  /\ pc = "idle"
  /\ stage[i] = "ready"
  /\ last' = Call("writeMap", i, <<>>,
                  [ axis2 |-> FmtAxis(i, "N"),
                    axis3 |-> FmtAxis(i, "beta"),
                    value |-> << FmtMat(Attr(i, "massFlow")),
                                 FmtMat(Attr(i, "efficiency")),
                                 FmtMat(Attr(i, "compression")) >> ])
  /\ UNCHANGED <<cls, inst, stage, fid, pc, cur, tline, todo, mPR, MPR,
                 section, lastReads, nbad>>

\* ------------------------------------------------------- printMap
\* matrix * K  and  (matrix - 1) * Kp + 1, element by element
TimesK(m, K) == [r \in 1..Len(m) |-> [c \in 1..Len(m[r]) |-> m[r][c] * K]]
AboutUnity(m, Kp) ==
  [r \in 1..Len(m) |-> [c \in 1..Len(m[r]) |-> (m[r][c] - Unit) * Kp + Unit]]

\* (self.massFlow.T*(self.N)).T : row r of massFlow times N[r]; a one-element
\* N is broadcast; the 10 x 1 class default multiplies column c by N[c]
TimesN(i, m) ==
  [r \in 1..Len(m) |->
     [c \in 1..Len(m[r]) |->
        (m[r][c] * (IF "N" \notin DOMAIN inst[i] THEN cls.N[c][1]
                    ELSE IF Len(inst[i].N) = 1 THEN inst[i].N[1]
                    ELSE inst[i].N[r])) \div Unit]]

\* the three arrays handed to plt.contourf (lines 254, 260)
PrintMap(i) ==
  /\ pc = "idle"
  /\ stage[i] = "ready"
  /\ Attr(i, "isTurbine") =>
       IF "N" \in DOMAIN inst[i]
         THEN Len(inst[i].N) \in {1, Len(Attr(i, "massFlow"))}
         ELSE \A r \in 1..Len(Attr(i, "massFlow")) :
                 Len(Attr(i, "massFlow")[r]) = Len(cls.N)
  /\ LET Km == Attr(i, "Km")
         Kp == Attr(i, "Kp")
         Keta == Attr(i, "Keta")
         x == IF Attr(i, "isCompressor")
                THEN TimesK(Attr(i, "massFlow"), Km)
                ELSE TimesK(TimesN(i, Attr(i, "massFlow")), Km)
     IN  last' = Call("printMap", i, <<>>,
                      [ x |-> x,
                        y |-> AboutUnity(Attr(i, "compression"), Kp),
                        z |-> TimesK(Attr(i, "efficiency"), Keta) ])
  /\ UNCHANGED <<cls, inst, stage, fid, pc, cur, tline, todo, mPR, MPR,
                 section, lastReads, nbad>>

\* ------------------------------------------------------- plotDesingPoint
\* the design point is the grid node (N[r], beta[c]), where the linear
\* interp2d of lines 291-292 returns massFlow[r][c] and compression[r][c].
\* The point handed to plt.plot (lines 295, 297).
PlotDesingPoint(i, r, c) ==
  /\ pc = "idle"
  /\ stage[i] = "ready"
  /\ {"N", "beta"} \subseteq DOMAIN inst[i]
  /\ r \in 1..Len(inst[i].N)
  /\ c \in 1..Len(inst[i].beta)
  /\ \A f \in {"massFlow", "compression"} :
       /\ Len(Attr(i, f)) = Len(inst[i].N)
       /\ \A k \in 1..Len(Attr(i, f)) : Len(Attr(i, f)[k]) = Len(inst[i].beta)
  /\ LET mf == Attr(i, "massFlow")[r][c]
         pr == Attr(i, "compression")[r][c]
     IN  last' = Call("plotDesingPoint", i, <<r, c>>,
                      [ x |-> IF Attr(i, "isCompressor")
                                THEN mf * Attr(i, "Km")
                                ELSE (mf * Attr(i, "Km") * inst[i].N[r]) \div Unit,
                        y |-> pr * Attr(i, "Kp") ])
  /\ UNCHANGED <<cls, inst, stage, fid, pc, cur, tline, todo, mPR, MPR,
                 section, lastReads, nbad>>

\* ------------------------------------------------------- specifications
\* the loader: one instance, source files of every shape
Next ==
  \/ \E isMap \in BOOLEAN, w \in 1..MaxWidth, h \in 1..MaxHeight, c \in BOOLEAN :
        Construct(1, isMap, w, h, c)
  \/ ScanLine
  \/ ReadLines((0 - MaxSkew)..MaxSkew)
  \/ Decode
  \/ ScanEnd
  \/ Collect(1)

Spec == Init /\ [][Next]_vars

\* the methods of a constructed map: one instance, source files whose
\* sections hold the expected number of tokens or none
NextOps ==
  \/ \E isMap \in BOOLEAN, w \in 1..MaxWidth, h \in 1..MaxHeight, c \in BOOLEAN :
        Construct(1, isMap, w, h, c)
  \/ ScanLine
  \/ ReadLines({0})
  \/ Decode
  \/ ScanEnd
  \/ \E k \in ScaleArgs : ScaleMap(1, k[1], k[2], k[3])
  \/ WriteMap(1)
  \/ PrintMap(1)
  \/ \E r \in 1..MaxHeight, c \in 1..MaxWidth : PlotDesingPoint(1, r, c)

SpecOps == Init /\ [][NextOps]_vars

\* two instances of the largest shape: instance 1 loaded as in SpecOps,
\* instance 2 constructed from a location that is no .Map file, so that all
\* its grids stay the class defaults; either may be constructed first
NextIso ==
  \/ \E isMap \in BOOLEAN, c \in BOOLEAN :
        Construct(1, isMap, MaxWidth, MaxHeight, c)
  \/ \E c \in BOOLEAN : Construct(2, FALSE, MaxWidth, MaxHeight, c)
  \/ ScanLine
  \/ ReadLines({0})
  \/ Decode
  \/ ScanEnd
  \/ \E i \in Insts, k \in ScaleArgs : ScaleMap(i, k[1], k[2], k[3])
  \/ \E i \in Insts : WriteMap(i)

SpecIso == Init /\ [][NextIso]_vars

\* ------------------------------------------------------------ properties
IsShape(m, rows, cols) ==
  /\ Len(m) = rows
  /\ \A r \in 1..Len(m) : Len(m[r]) = cols

Loaded(i) == stage[i] = "ready" /\ fid[i] # "none"

Grids(i) == [a \in {"massFlow", "efficiency", "compression", "beta", "N"} |-> Attr(i, a)]
ScaleOf(i) == <<Attr(i, "Kp"), Attr(i, "Km"), Attr(i, "Keta")>>

\* C1: after every load that returns, massFlow, efficiency and compression
\* have shape height x width, beta has length width and N has length height.
ShapeInvariant ==
  \A i \in Insts :
    Loaded(i) =>
      /\ \A f \in {"massFlow", "efficiency", "compression"} :
           IsShape(Attr(i, f), Attr(i, "height"), Attr(i, "width"))
      /\ Len(Attr(i, "beta")) = Attr(i, "width")
      /\ Len(Attr(i, "N")) = Attr(i, "height")

\* C2: once the constructor has returned, no step changes massFlow,
\* efficiency, compression, beta or N; a scaleMap call leaves the scale triple
\* equal to its arguments and no other step changes the triple.
ScalingTransparency ==
  [][\A i \in Insts :
       stage[i] = "ready" =>
         /\ Grids(i)' = Grids(i)
         /\ IF last'.op = "scaleMap" /\ last'.inst = i
              THEN ScaleOf(i)' = last'.args
              ELSE ScaleOf(i)' = ScaleOf(i)]_vars

\* a map that loaded sections was rescaled twice with different arguments
\* and then written
ScalingTransparencyWitness ==
  /\ Loaded(1)
  /\ "massFlow" \in DOMAIN inst[1]
  /\ "compression" \in DOMAIN inst[1]
  /\ ScaleOf(1) = <<3, 2, 1>>
  /\ last.op = "writeMap"

\* C3: for a turbine map the if-chain never runs the Section Reader for a
\* "Pressure Ratio" header, and after a load that returns the compression
\* matrix was rebuilt from a Min and a Max bound vector of length height.
TurbineNeverReadsPressureRatio ==
  /\ (pc \in {"dispatch", "decode"} /\ Attr(cur, "isTurbine")) => "PR" \notin Range(todo)
  /\ \A i \in Insts :
       (Loaded(i) /\ cur = i /\ Attr(i, "isTurbine")) =>
          /\ Len(mPR) = Attr(i, "height")
          /\ Len(MPR) = Attr(i, "height")

\* C4: while the if-chain works on a line that contains "Min Pressure Ratio"
\* or "Max Pressure Ratio", the Section Reader call of the "Pressure Ratio"
\* test is never among the calls, the Bound Reader call is, and the Bound
\* Reader makes ceil((height+1)/5)*2 readline calls.
HeaderDisambiguation ==
  (pc \in {"dispatch", "decode"}) =>
     /\ (In(sMinPressureRatio, tline) \/ In(sMaxPressureRatio, tline)) =>
           "PR" \notin Range(todo)
     /\ In(sMinPressureRatio, tline) =>
           ("MIN" \in Range(todo) \/ Range(todo) \subseteq {"MAX"})
     /\ In(sMaxPressureRatio, tline) => "MAX" \in Range(todo)
     /\ (pc = "decode" /\ Head(todo) \in {"MIN", "MAX"}) =>
           lastReads = ((Attr(cur, "height") + 1 + 4) \div 5) * 2

\* the Bound Reader has read the lines after a "Min Pressure Ratio" header of
\* a map for which the Section Reader would have read another number of lines
HeaderDisambiguationWitness ==
  /\ pc = "decode"
  /\ tline = sMinPressureRatio
  /\ Head(todo) = "MIN"
  /\ lastReads = 2
  /\ SectionLines(Attr(cur, "width"), Attr(cur, "height")) = 3

FailFastOnShapeMismatch ==
  [][(pc = "decode" /\
      Len(section) # Expected(Head(todo), Attr(cur, "width"), Attr(cur, "height")))
        => stage'[cur] = "failed"]_vars

\* C7: when the constructor has returned or raised, the file readMapGT
\* opened is closed.
HandleClosedAfterLoad ==
  \A i \in Insts : stage[i] \in {"ready", "failed"} => fid[i] # "open"

\* C8: the values every consumer uses are the stored ones under the current
\* scale triple: mass flow times Km, (pressure ratio - 1) * Kp + 1 and
\* efficiency times Keta.
ScaledAtConsumption ==
  LET i == last.inst
      Km == Attr(i, "Km")
      Kp == Attr(i, "Kp")
      Keta == Attr(i, "Keta")
      mass == [r \in 1..Len(Attr(i, "massFlow")) |->
                 [c \in 1..Len(Attr(i, "massFlow")[r]) |->
                    Attr(i, "massFlow")[r][c] * Km]]
      pres == [r \in 1..Len(Attr(i, "compression")) |->
                 [c \in 1..Len(Attr(i, "compression")[r]) |->
                    (Attr(i, "compression")[r][c] - Unit) * Kp + Unit]]
      effi == [r \in 1..Len(Attr(i, "efficiency")) |->
                 [c \in 1..Len(Attr(i, "efficiency")[r]) |->
                    Attr(i, "efficiency")[r][c] * Keta]]
  IN  /\ last.op = "writeMap" =>
            last.out.value = <<FmtMat(mass), FmtMat(effi), FmtMat(pres)>>
      /\ last.op = "printMap" =>
            /\ last.out.x = IF Attr(i, "isCompressor") THEN mass ELSE TimesN(i, mass)
            /\ last.out.y = pres
            /\ last.out.z = effi
      /\ last.op = "plotDesingPoint" =>
            /\ last.out.x = IF Attr(i, "isCompressor")
                              THEN mass[last.args[1]][last.args[2]]
                              ELSE TimesN(i, mass)[last.args[1]][last.args[2]]
            /\ last.out.y = pres[last.args[1]][last.args[2]]

\* C9: for a stream of exactly (width+1)*(height+1) tokens the Section Reader
\* returns the leading token of each of the height rows after the header row
\* as N and the other width tokens of each row as the row of the matrix.
SectionDecoding ==
  [][(pc = "decode" /\ IsSection(Head(todo)) /\
      Len(section) = (Attr(cur, "width") + 1) * (Attr(cur, "height") + 1))
        => LET w == Attr(cur, "width")
               h == Attr(cur, "height")
               f == Field(Head(todo))
           IN  /\ stage'[cur] # "failed"
               /\ inst'[cur].N = [r \in 1..h |-> section[(w + 1) * r + 1]]
               /\ inst'[cur][f] =
                    [r \in 1..h |-> [c \in 1..w |-> section[(w + 1) * r + 1 + c]]]]_vars

\* C10: a step that works on one instance leaves the grids, axes and scale
\* factors read through every other constructed instance as they were.
ActsOn(i) ==
  \/ pc # "idle" /\ cur = i
  \/ pc = "idle" /\ last' # last /\ last'.inst = i

InstanceIsolation ==
  [][\A i \in Insts :
       (stage[i] = "ready" /\ ~ActsOn(i)) =>
          /\ Grids(i)' = Grids(i)
          /\ ScaleOf(i)' = ScaleOf(i)]_vars

\* instance 2 still reads every grid and scale factor from the class while
\* instance 1 holds a rebuilt compression matrix and its own scale factors
InstanceIsolationWitness ==
  /\ stage[1] = "ready"
  /\ stage[2] = "ready"
  /\ DOMAIN inst[2] \cap {"massFlow", "efficiency", "compression", "beta", "N",
                          "Kp", "Km", "Keta"} = {}
  /\ cur = 1
  /\ Len(mPR) # 0
  /\ "Kp" \in DOMAIN inst[1]
  /\ Attr(1, "compression") # Attr(2, "compression")
  /\ ScaleOf(1) # ScaleOf(2)

====
